---------------------------- MODULE Spec2Model ----------------------------
(***************************************************************************)
(* Directory Analyzer: the traversal and aggregation engine of             *)
(* FileAnalyzer, in its two variants.                                      *)
(*   variant = "seq" : src/da.cpp      (recursive analyze, plain size_t)   *)
(*   variant = "mt"  : src/README.md   (processDirectory / processFile,   *)
(*                     std::async fan-out, atomics and two mutexes)        *)
(* A path is a sequence of file names, a file name a sequence of           *)
(* characters.  Counters are size_t values: every addition is taken        *)
(* modulo SIZE_MAX + 1.                                                    *)
(***************************************************************************)
EXTENDS Integers, Sequences, FiniteSets, TLC

\* std::numeric_limits<size_t>::max(), scaled down to a 4-bit word
SIZE_MAX == 15

\* bounds of the explored configurations
MaxThreads == 2
MaxThreshold == 1
MaxExcludes == 1
MaxIncludes == 1
MaxAnalyses == 2
MaxLabel == 3
MaxTasks == 2
MaxName == 4

VARIABLES
    variant,        \* which program runs: "seq" (da.cpp) or "mt" (README.md)
    tree,           \* the file system below the working directory
    showHidden,     \* FileAnalyzer::showHidden
    includeTypes,   \* FileAnalyzer::includeTypes
    sizeThreshold,  \* FileAnalyzer::sizeThreshold
    excludeDirs,    \* FileAnalyzer::excludeDirs
    numThreads,     \* FileAnalyzer::numThreads (mt)
    stats,          \* FileAnalyzer::stats : key -> [count, totalSize]
    totalFiles,
    totalSize,
    hiddenFiles,
    hiddenSize,
    processedDirs,  \* FileAnalyzer::processedDirs (mt)
    statsMutex,     \* owner of FileAnalyzer::statsMutex, or NoOwner (mt)
    frames,         \* the activations of analyze / processDirectory, by path
    phase,          \* "config", "running", "done", "aborted", "exited"
    attributed,     \* history: the entries whose bytes went into totalSize
    console,        \* what main has written so far, in order
    exitCode,       \* the value main returned, or NotExited
    analyses,       \* history: the number of calls of analyze(targetDir)
    firstResult,    \* history: the counters when the first call returned
    str,            \* escapeCSV: the argument
    escaped,        \* escapeCSV: the value returned, or NotEscaped
    tasks,          \* processDirectory called by several tasks: the calls
    processedDirsMutex, \* owner of FileAnalyzer::processedDirsMutex (mt)
    arg,            \* an argument given by itself: to a member function, to -j
    ret,            \* ... and the value it returned, or NotCalled
    csvFile         \* the file exportCsv has written, or NoFile

config == <<variant, tree, showHidden, includeTypes, sizeThreshold,
            excludeDirs, numThreads>>
counters == <<stats, totalFiles, totalSize, hiddenFiles, hiddenSize>>
vars == <<variant, tree, showHidden, includeTypes, sizeThreshold,
          excludeDirs, numThreads, stats, totalFiles, totalSize,
          hiddenFiles, hiddenSize, processedDirs, statsMutex, frames,
          phase, attributed, console, exitCode, analyses, firstResult,
          str, escaped, tasks, processedDirsMutex, arg, ret, csvFile>>
csvField == <<str, escaped>>
single == <<arg, ret>>
calls == <<str, escaped, tasks, processedDirsMutex, arg, ret>>
apart == <<str, escaped, tasks, processedDirsMutex, arg, ret, csvFile>>
outcome == <<console, exitCode>>
passes == <<analyses, firstResult>>

-----------------------------------------------------------------------------
(* size_t arithmetic *)

Wrap(x) == x % (SIZE_MAX + 1)

Last(s) == s[Len(s)]

Max(S) == CHOOSE x \in S : \A y \in S : y <= x

RECURSIVE SumSeq(_)
SumSeq(s) == IF s = <<>> THEN 0 ELSE s[1] + SumSeq(Tail(s))

RECURSIVE SetToSeq(_)
\* the elements of a finite set of integers, ascending
SetToSeq(S) ==
    IF S = {} THEN <<>>
    ELSE LET m == CHOOSE x \in S : \A y \in S : x <= y
         IN <<m>> \o SetToSeq(S \ {m})

-----------------------------------------------------------------------------
(* file names and classification *)

UpperCase == <<"A", "B", "G", "I", "N", "T", "X">>
LowerCase == <<"a", "b", "g", "i", "n", "t", "x">>

\* std::tolower on one character
ToLowerChar(c) ==
    IF \E i \in 1..Len(UpperCase) : UpperCase[i] = c
    THEN LowerCase[CHOOSE i \in 1..Len(UpperCase) : UpperCase[i] = c]
    ELSE c

\* mutant: the extension keeps its case
safeToLowerIdentity(s) == s

safeToLower(s) == [i \in 1..Len(s) |-> ToLowerChar(s[i])]

\* fs::path::extension() of a file name: from the last dot, unless that dot
\* is the first character or the name is "." or ".."
Extension(filename) ==
    LET dots == {i \in 1..Len(filename) : filename[i] = "."}
    IN IF dots = {} \/ filename = <<".">> \/ filename = <<".", ".">>
       THEN <<>>
       ELSE IF Max(dots) = 1 THEN <<>>
            ELSE SubSeq(filename, Max(dots), Len(filename))

KInvalid == <<"[invalid]">>
KDotfile == <<"[dotfile]">>
KNoExtension == <<"[no extension]">>
KGit == <<".", "g", "i", "t">>
KTxt == <<".", "t", "x", "t">>

getFileType(path) ==
    IF path = <<>> THEN KInvalid
    ELSE LET filename == Last(path)
             ext == safeToLower(Extension(filename))
         IN IF filename = <<>> THEN KInvalid
            ELSE IF filename[1] = "."
                 THEN (IF filename = ext THEN KDotfile
                       ELSE IF ext # <<>> THEN ext ELSE KDotfile)
                 ELSE (IF ext = <<>> THEN KNoExtension ELSE ext)

\* mutant: the test looks at the first character of the whole path
IsDotNameWholePath(path) ==
    path # <<>> /\ Head(path) # <<>> /\ Head(path)[1] = "."

\* mutant: a path is hidden when any of its components starts with '.'
IsDotNameAnyComponent(path) ==
    \E i \in 1..Len(path) : path[i] # <<>> /\ path[i][1] = "."

\* entry.path().filename().string()[0] == '.'
IsDotName(path) == path # <<>> /\ Last(path) # <<>> /\ Last(path)[1] = "."

-----------------------------------------------------------------------------
(* the file system *)

\* a path that stat() does not find; node 0 is the working directory
Missing == 0 - 1
Unknown == 0 - 2

Dir(parent, name) ==
    [parent |-> parent, name |-> name, kind |-> "dir", target |-> 0,
     size |-> 0, sizeOk |-> TRUE]
File(parent, name, size, sizeOk) ==
    [parent |-> parent, name |-> name, kind |-> "file", target |-> 0,
     size |-> size, sizeOk |-> sizeOk]
Link(parent, name, target) ==
    [parent |-> parent, name |-> name, kind |-> "link", target |-> target,
     size |-> 0, sizeOk |-> TRUE]
Broken(parent, name) ==
    [parent |-> parent, name |-> name, kind |-> "broken", target |-> 0,
     size |-> 0, sizeOk |-> FALSE]

\* a symlink that points at itself: its status cannot be read (ELOOP)
Loop(parent, name) ==
    [parent |-> parent, name |-> name, kind |-> "loop", target |-> 0,
     size |-> 0, sizeOk |-> FALSE]

nR == <<"r">>
nA == <<"a">>
nB == <<"b">>
nC == <<"c">>
nL == <<"l">>
nS == <<"s">>
nD == <<"d">>
nW == <<"w">>
nDot == <<".">>
nZZ == <<"z", "z">>
nGit == <<".", "g", "i", "t">>
nEnv == <<".", "e", "n", "v">>
nCfg == <<"c", "f", "g">>
nHead == <<"H", "E", "A", "D">>
nXtxt == <<"x", ".", "t", "x", "t">>
nYTXT == <<"y", ".", "T", "X", "T">>
nVtxt == <<"v", ".", "t", "x", "t">>
nUtxt == <<"u", ".", "t", "x", "t">>
nZgit == <<"z", ".", "g", "i", "t">>
nPbin == <<"p", ".", "b", "i", "n">>
nQbin == <<"q", ".", "b", "i", "n">>
nTbin == <<"t", ".", "b", "i", "n">>
nNbin == <<".", "n", ".", "b", "i", "n">>
nEtxt == <<"e", ".", "t", "x", "t">>
nFtxt == <<"f", ".", "t", "x", "t">>
nO == <<"o">>
nDotH == <<".", "h">>
nDotK == <<".", "k">>
nNtxt == <<"n", ".", "t", "x", "t">>
nMtxt == <<"m", ".", "t", "x", "t">>

\* r/{a/{x.txt,.env}, b/{y.TXT,.git/{cfg,HEAD}}, c/{z.git}}
TreeWide ==
    << Dir(0, nR),
       Dir(1, nA), Dir(1, nB), Dir(1, nC),
       File(2, nXtxt, 1, TRUE), File(2, nEnv, 1, TRUE),
       File(3, nYTXT, 2, TRUE), Dir(3, nGit),
       File(8, nCfg, 2, TRUE), File(8, nHead, 1, TRUE),
       File(4, nZgit, 0, TRUE) >>

\* r/{a/{x.txt, s/{w}}, l -> a}
TreeAlias ==
    << Dir(0, nR),
       Dir(1, nA), Link(1, nL, 2),
       File(2, nXtxt, 1, TRUE), Dir(2, nS),
       File(5, nW, 2, TRUE) >>

\* r/{p.bin, q.bin, t.bin, .n.bin, .git/{cfg}}: sizes that overflow a word
TreeBig ==
    << Dir(0, nR),
       File(1, nPbin, 9, TRUE), File(1, nQbin, 8, TRUE),
       File(1, nTbin, 1, TRUE), File(1, nNbin, 9, TRUE),
       Dir(1, nGit), File(6, nCfg, 9, TRUE) >>

\* r/{u.txt (size unreadable), d -> nowhere, v.txt, .git/{cfg, HEAD (unreadable)}}
TreeFault ==
    << Dir(0, nR),
       File(1, nUtxt, 1, FALSE), Broken(1, nD), File(1, nVtxt, 1, TRUE),
       Dir(1, nGit), File(5, nCfg, 2, TRUE), File(5, nHead, 1, FALSE) >>

\* r/{e.txt, o -> o, f.txt}
TreeLoop ==
    << Dir(0, nR),
       File(1, nEtxt, 1, TRUE), Loop(1, nO), File(1, nFtxt, 2, TRUE) >>

\* r/{.h/{n.txt, .git/{cfg}}, .k/{m.txt, .env}}: directories whose names start
\* with '.'
TreeDot ==
    << Dir(0, nR),
       Dir(1, nDotH), Dir(1, nDotK),
       File(2, nNtxt, 1, TRUE), Dir(2, nGit), File(5, nCfg, 2, TRUE),
       File(3, nMtxt, 2, TRUE), File(3, nEnv, 1, TRUE) >>

Trees == {TreeWide, TreeAlias, TreeBig, TreeFault, TreeLoop}

Nodes(t) == 1..Len(t)

\* the node a symlink stands for
Canon(t, n) == IF n \in Nodes(t) /\ t[n].kind = "link" THEN t[n].target ELSE n

\* directory_entry::is_directory(): follows a symlink
IsDirectory(t, n) == t[Canon(t, n)].kind = "dir"

\* directory_entry::is_directory() raises filesystem_error: the status of the
\* entry cannot be read
StatusFails(t, n) == t[n].kind = "loop"

\* directory_entry::is_regular_file()
IsRegularFile(t, n) == t[Canon(t, n)].kind = "file"

\* the entries a directory_iterator yields for directory d, in listing order
Children(t, d) == SetToSeq({i \in Nodes(t) : t[i].parent = d})

RECURSIVE Walk(_, _, _)
\* resolve the components of p starting in directory cur
Walk(t, cur, p) ==
    IF cur = Missing THEN Missing
    ELSE IF p = <<>> THEN cur
    ELSE IF Head(p) = nDot THEN Walk(t, cur, Tail(p))
    ELSE LET kids == {i \in Nodes(t) : t[i].parent = Canon(t, cur)
                                        /\ t[i].name = Head(p)}
         IN IF kids = {} THEN Missing
            ELSE Walk(t, CHOOSE i \in kids : TRUE, Tail(p))

\* what stat() finds for a path string (relative to the working directory):
\* the node behind all symlinks, Missing, or Unknown when stat() fails with
\* an error other than "no such file"
Identity(t, p) ==
    IF p = <<>> THEN Missing
    ELSE LET n == Walk(t, 0, p)
         IN IF n = Missing THEN Missing
            ELSE IF n = 0 THEN 0
            ELSE IF t[n].kind = "broken" THEN Missing
            ELSE IF t[n].kind = "loop" THEN Unknown
            ELSE Canon(t, n)

\* fs::equivalent(p1, p2): an error when neither path exists, or when the
\* status of either cannot be read
Equivalent(t, p1, p2) ==
    LET i1 == Identity(t, p1)
        i2 == Identity(t, p2)
    IN [throws |-> (i1 = Missing /\ i2 = Missing) \/ Unknown \in {i1, i2},
        value |-> i1 \notin {Missing, Unknown} /\ i1 = i2]

\* fs::path::parent_path()
ParentPath(p) == IF p = <<>> THEN <<>> ELSE SubSeq(p, 1, Len(p) - 1)

\* pathStr.find(dirStr + fs::path::preferred_separator) == 0
HasPrefix(pathStr, dirStr) ==
    Len(dirStr) < Len(pathStr) /\ SubSeq(pathStr, 1, Len(dirStr)) = dirStr

-----------------------------------------------------------------------------
(* filter predicates *)

RECURSIVE ExcludeLoop(_, _, _)
\* the for loop of da.cpp's shouldExclude: "true", "false", or "throw" when
\* fs::equivalent raises filesystem_error
ExcludeLoop(t, path, dirs) ==
    IF dirs = <<>> THEN "false"
    ELSE LET e1 == Equivalent(t, path, Head(dirs))
             e2 == Equivalent(t, ParentPath(path), Head(dirs))
         IN IF e1.throws THEN "throw"
            ELSE IF e1.value THEN "true"
            ELSE IF e2.throws THEN "throw"
            ELSE IF e2.value THEN "true"
            ELSE IF HasPrefix(path, Head(dirs)) THEN "true"
            ELSE ExcludeLoop(t, path, Tail(dirs))

\* mutant: the catch block returns false without the string comparison
shouldExcludeSeqNoFallback(t, dirs, path) ==
    ExcludeLoop(t, path, dirs) = "true"

\* da.cpp FileAnalyzer::shouldExclude
shouldExcludeSeq(t, dirs, path) ==
    LET r == ExcludeLoop(t, path, dirs)
    IN IF r = "throw"
       THEN \E i \in 1..Len(dirs) : HasPrefix(path, dirs[i])
       ELSE r = "true"

\* mutant: only the string comparisons, without fs::equivalent
shouldExcludeMTLiteral(t, dirs, path) ==
    \E i \in 1..Len(dirs) : path = dirs[i] \/ HasPrefix(path, dirs[i])

\* README.md FileAnalyzer::shouldExclude
shouldExcludeMT(t, dirs, path) ==
    \E i \in 1..Len(dirs) :
        \/ path = dirs[i]
        \/ HasPrefix(path, dirs[i])
        \/ LET e1 == Equivalent(t, path, dirs[i])
               e2 == Equivalent(t, ParentPath(path), dirs[i])
           IN /\ ~e1.throws
              /\ e1.value \/ (~e2.throws /\ e2.value)

shouldExclude(path) ==
    IF variant = "seq" THEN shouldExcludeSeq(tree, excludeDirs, path)
    ELSE shouldExcludeMT(tree, excludeDirs, path)

shouldInclude(fileType) ==
    IF includeTypes = {} THEN TRUE ELSE fileType \in includeTypes

\* mutant: the upper bound is not tested
isWithinSizeThresholdNoMax(size) == size >= sizeThreshold.minSize

isWithinSizeThreshold(size) ==
    size >= sizeThreshold.minSize /\ size <= sizeThreshold.maxSize

\* mutant: every threshold is taken as valid
isValidUnchecked(threshold) == TRUE

\* SizeThreshold::isValid
isValid(threshold) == threshold.minSize <= threshold.maxSize

\* the filters of a regular file, after its size was read: size threshold,
\* then include-type filter
PassesFilters(path, size) ==
    isWithinSizeThreshold(size) /\ shouldInclude(getFileType(path))

-----------------------------------------------------------------------------
(* the counters *)

ZeroStats == [count |-> 0, totalSize |-> 0]

\* stats[key]: operator[] default-constructs a missing entry
Entry(st, key) == IF key \in DOMAIN st THEN st[key] ELSE ZeroStats

Put(st, key, e) ==
    [k \in (DOMAIN st) \cup {key} |-> IF k = key THEN e ELSE st[k]]

\* da.cpp FileTypeStats::update: the entry after the call, and whether
\* overflow_error was thrown
UpdateSeq(e, size) ==
    IF e.count = SIZE_MAX
    THEN [entry |-> e, threw |-> TRUE]
    ELSE IF e.totalSize > SIZE_MAX - size
         THEN [entry |-> [e EXCEPT !.count = @ + 1], threw |-> TRUE]
         ELSE [entry |-> [count |-> e.count + 1,
                          totalSize |-> e.totalSize + size],
               threw |-> FALSE]

\* README.md FileTypeStats::update: two atomic additions
UpdateMT(e, size) ==
    [count |-> Wrap(e.count + 1), totalSize |-> Wrap(e.totalSize + size)]

Cur ==
    [stats |-> stats, totalFiles |-> totalFiles, totalSize |-> totalSize,
     hiddenFiles |-> hiddenFiles, hiddenSize |-> hiddenSize]

ZeroCounters ==
    [stats |-> <<>>, totalFiles |-> 0, totalSize |-> 0,
     hiddenFiles |-> 0, hiddenSize |-> 0]

\* totalSize += size
AddTotal(c, size) == [c EXCEPT !.totalSize = Wrap(@ + size)]

\* hiddenFiles++; hiddenSize += size
AddHidden(c, size) ==
    [c EXCEPT !.hiddenFiles = Wrap(@ + 1), !.hiddenSize = Wrap(@ + size)]

\* README.md: stats[key].update(size); totalFiles++  (under statsMutex)
AddStatMT(c, key, size) ==
    [c EXCEPT !.stats = Put(@, key, UpdateMT(Entry(@, key), size)),
              !.totalFiles = Wrap(@ + 1)]

\* the regular files a recursive_directory_iterator finds below d
RECURSIVE FilesBelow(_, _)
FilesBelow(t, d) ==
    LET kids == Children(t, d)
        Sub(i) == IF t[kids[i]].kind = "file" THEN <<kids[i]>>
                  ELSE IF t[kids[i]].kind = "dir" THEN FilesBelow(t, kids[i])
                  ELSE <<>>
        F[i \in 0..Len(kids)] == IF i = 0 THEN <<>> ELSE F[i - 1] \o Sub(i)
    IN F[Len(kids)]

\* da.cpp calculateDirectorySize: entry.file_size() throws when the size
\* cannot be read
calculateDirectorySize(t, d) ==
    LET fs == FilesBelow(t, d)
    IN [threw |-> \E i \in 1..Len(fs) : ~t[fs[i]].sizeOk,
        size |-> Wrap(SumSeq([i \in 1..Len(fs) |-> t[fs[i]].size]))]

\* README.md processDirectory, the .git loop: fs::file_size(p, ec) returns
\* static_cast<uintmax_t>(-1) on error, and that value is added
GitSizeMT(t, d) ==
    LET fs == FilesBelow(t, d)
    IN Wrap(SumSeq([i \in 1..Len(fs) |->
                     IF t[fs[i]].sizeOk THEN t[fs[i]].size ELSE SIZE_MAX]))

\* mutant: the error code of fs::file_size is not looked at
SeqFileEffectNoEc(c, path, n) ==
    LET size == tree[n].size
        key == getFileType(path)
        u == UpdateSeq(Entry(c.stats, key), size)
    IN IF ~isWithinSizeThreshold(size) THEN c
       ELSE IF ~shouldInclude(key) THEN c
       ELSE IF IsDotName(path) /\ ~showHidden
            THEN AddTotal(AddHidden(c, size), size)
            ELSE IF u.threw
                 THEN [c EXCEPT !.stats = Put(@, key, u.entry)]
                 ELSE AddTotal([c EXCEPT !.stats = Put(@, key, u.entry),
                                         !.totalFiles = Wrap(@ + 1)], size)

\* da.cpp analyze, lines 299-338: one regular file
SeqFileEffect(c, path, n) ==
    LET size == tree[n].size
        key == getFileType(path)
        u == UpdateSeq(Entry(c.stats, key), size)
    IN IF ~tree[n].sizeOk THEN c
       ELSE IF ~isWithinSizeThreshold(size) THEN c
       ELSE IF ~shouldInclude(key) THEN c
       ELSE IF IsDotName(path) /\ ~showHidden
            THEN AddTotal(AddHidden(c, size), size)
            ELSE IF u.threw
                 THEN [c EXCEPT !.stats = Put(@, key, u.entry)]
                 ELSE AddTotal([c EXCEPT !.stats = Put(@, key, u.entry),
                                         !.totalFiles = Wrap(@ + 1)], size)

\* whether SeqFileEffect adds the file's bytes to totalSize
SeqFileCounted(c, path, n) ==
    /\ tree[n].sizeOk
    /\ PassesFilters(path, tree[n].size)
    /\ \/ IsDotName(path) /\ ~showHidden
       \/ ~UpdateSeq(Entry(c.stats, getFileType(path)), tree[n].size).threw

\* da.cpp analyze, lines 277-292: a directory named .git
SeqGitEffect(c, n) ==
    LET g == calculateDirectorySize(tree, n)
        u == UpdateSeq(Entry(c.stats, KGit), g.size)
    IN IF g.threw THEN [c |-> c, threw |-> TRUE]
       ELSE IF showHidden
            THEN IF u.threw
                 THEN [c |-> [c EXCEPT !.stats = Put(@, KGit, u.entry)],
                       threw |-> TRUE]
                 ELSE [c |-> AddTotal([c EXCEPT
                                         !.stats = Put(@, KGit, u.entry),
                                         !.totalFiles = Wrap(@ + 1)], g.size),
                       threw |-> FALSE]
            ELSE [c |-> AddTotal(AddHidden(c, g.size), g.size),
                  threw |-> FALSE]

SetCounters(c) ==
    /\ stats' = c.stats
    /\ totalFiles' = c.totalFiles
    /\ totalSize' = c.totalSize
    /\ hiddenFiles' = c.hiddenFiles
    /\ hiddenSize' = c.hiddenSize

-----------------------------------------------------------------------------
(* activations *)

NoOwner == <<>>

\* no call of the member function yet
NotCalled == <<>>

\* exportCsv has not written a file
NoFile == <<>>

\* mutant: a lock_guard that does not wait for the mutex
MutexFreeAlways(mutex) == TRUE

\* std::lock_guard: the constructor returns once the mutex has no owner
MutexFree(mutex) == mutex = NoOwner
RootPath == <<nR>>

ThresholdValues == (0..MaxThreshold) \cup {SIZE_MAX}
ExcludeChoices == {<<nR, nB>>, <<nDot, nR, nA>>, <<nZZ>>, <<nDot, nR>>}
TypeChoices == {KTxt, KDotfile, <<>>}

\* entry.path() of the entry for node n found while listing path p
EPath(p, n) == Append(p, tree[n].name)

\* a new activation of analyze / processDirectory for the directory at path p
NewFrame(p, parent, async, pc) ==
    [node |-> Identity(tree, p), pc |-> pc,
     entries |-> Children(tree, Identity(tree, p)), ei |-> 1,
     files |-> <<>>, fi |-> 1, subDirs |-> <<>>, si |-> 1,
     parent |-> parent, async |-> async, pend |-> 0]

\* README.md processDirectory: where control is once the entry loop, then the
\* file loop, have run out
Advance(f) ==
    IF f.pc = "list" /\ f.ei > Len(f.entries)
    THEN IF f.fi > Len(f.files) THEN [f EXCEPT !.pc = "subdirs"]
         ELSE [f EXCEPT !.pc = "files"]
    ELSE IF f.pc = "files" /\ f.fi > Len(f.files)
         THEN [f EXCEPT !.pc = "subdirs"]
         ELSE f

\* the activation at p returns: a caller that called it synchronously goes on
\* with its next subdirectory (mt) or its next entry (seq)
Returned(fs, p) ==
    LET q == fs[p].parent
        done == [fs EXCEPT ![p].pc = "done"]
    IN IF q = <<>> \/ fs[p].async THEN done
       ELSE IF variant = "seq"
            THEN [done EXCEPT ![q].pc = "list", ![q].ei = @ + 1]
            ELSE [done EXCEPT ![q].pc = "subdirs", ![q].si = @ + 1]

PhaseAfterReturn(p) == IF frames[p].parent = <<>> THEN "done" ELSE phase

Running(p) == phase = "running" /\ p \in DOMAIN frames

NotExited == 0 - 1

-----------------------------------------------------------------------------
(* escapeCSV *)

NotEscaped == <<"not escaped">>

\* std::replace(escaped.begin(), escaped.end(), '"', '"')
ReplaceQuoteByQuote(s) ==
    [i \in 1..Len(s) |-> IF s[i] = "\"" THEN "\"" ELSE s[i]]

RECURSIVE DoubleQuotes(_)
\* the while loop of README.md's escapeCSV: every '"' becomes '""'
DoubleQuotes(s) ==
    IF s = <<>> THEN <<>>
    ELSE IF Head(s) = "\"" THEN <<"\"", "\"">> \o DoubleQuotes(Tail(s))
    ELSE <<Head(s)>> \o DoubleQuotes(Tail(s))

\* da.cpp FileAnalyzer::escapeCSV
escapeCSVSeq(s) ==
    IF \E i \in 1..Len(s) : s[i] \in {",", "\"", "\n"}
    THEN <<"\"">> \o ReplaceQuoteByQuote(s) \o <<"\"">>
    ELSE s

\* README.md FileAnalyzer::escapeCSV
escapeCSVMT(s) ==
    IF \E i \in 1..Len(s) : s[i] \in {",", "\"", "\n", "\r"}
    THEN <<"\"">> \o DoubleQuotes(s) \o <<"\"">>
    ELSE s

escapeCSV(s) == IF variant = "seq" THEN escapeCSVSeq(s) ELSE escapeCSVMT(s)

CsvChars == {"a", ",", "\"", "\n", "\r"}

\* the labels escapeCSV is applied to
Labels == UNION {[1..n -> CsvChars] : n \in 0..MaxLabel}

\* catch (const std::exception &e) in main: e.what(), the usage text,
\* return 1
Fatal(what) ==
    /\ console' = console \o <<what, "usage">>
    /\ exitCode' = 1

\* an exception that leaves the try block of main ends in its catch clause
CatchInMain(what) ==
    IF phase' = "aborted" THEN Fatal(what) ELSE UNCHANGED outcome

\* history: the counters as the first call of analyze leaves them
NoteResult ==
    firstResult' = IF phase' = "done" /\ analyses = 1 THEN Cur
                   ELSE firstResult

-----------------------------------------------------------------------------
(* configuration: the setters main calls before analyze *)

Init ==
    /\ variant \in {"seq", "mt"}
    /\ tree \in Trees
    /\ showHidden \in BOOLEAN
    /\ includeTypes = {}
    /\ sizeThreshold = [minSize |-> 0, maxSize |-> SIZE_MAX]
    /\ excludeDirs = <<>>
    /\ numThreads \in (IF variant = "mt" THEN 1..MaxThreads ELSE {1})
    /\ stats = <<>>
    /\ totalFiles = 0
    /\ totalSize = 0
    /\ hiddenFiles = 0
    /\ hiddenSize = 0
    /\ processedDirs = {}
    /\ statsMutex = NoOwner
    /\ frames = <<>>
    /\ phase = "config"
    /\ attributed = {}
    /\ console = <<>>
    /\ exitCode = NotExited
    /\ analyses = 0
    /\ firstResult = ZeroCounters
    /\ str = <<>>
    /\ escaped = NotEscaped
    /\ tasks = <<>>
    /\ processedDirsMutex = NoOwner
    /\ arg = <<>>
    /\ ret = NotCalled
    /\ csvFile = NoFile

setSizeThreshold(threshold) ==
    /\ phase = "config"
    /\ IF ~isValid(threshold)
       THEN phase' = "aborted" /\ UNCHANGED sizeThreshold
       ELSE sizeThreshold' = threshold /\ UNCHANGED phase
    /\ UNCHANGED <<variant, tree, showHidden, includeTypes, excludeDirs,
                   numThreads, counters, processedDirs, statsMutex, frames,
                   attributed>>
    /\ CatchInMain("Invalid size threshold")
    /\ UNCHANGED passes
    /\ UNCHANGED apart

addExcludeDir(dir) ==
    /\ phase = "config"
    /\ Len(excludeDirs) < MaxExcludes
    /\ excludeDirs' = Append(excludeDirs, dir)
    /\ UNCHANGED <<variant, tree, showHidden, includeTypes, sizeThreshold,
                   numThreads, counters, processedDirs, statsMutex, frames,
                   phase, attributed>>
    /\ UNCHANGED <<outcome, passes>>
    /\ UNCHANGED apart

addIncludeType(type) ==
    /\ phase = "config"
    /\ Cardinality(includeTypes) < MaxIncludes
    /\ includeTypes' =
           includeTypes \cup {IF type = <<>> THEN KNoExtension ELSE type}
    /\ UNCHANGED <<variant, tree, showHidden, sizeThreshold, excludeDirs,
                   numThreads, counters, processedDirs, statsMutex, frames,
                   phase, attributed>>
    /\ UNCHANGED <<outcome, passes>>
    /\ UNCHANGED apart

setThreadCount(threads) ==
    /\ phase = "config"
    /\ variant = "mt"
    /\ numThreads' = IF threads > 0 THEN threads ELSE 1
    /\ UNCHANGED <<variant, tree, showHidden, includeTypes, sizeThreshold,
                   excludeDirs, counters, processedDirs, statsMutex, frames,
                   phase, attributed>>
    /\ UNCHANGED <<outcome, passes>>
    /\ UNCHANGED apart

\* analyze(targetDir): README.md clears the previous analysis data and calls
\* processDirectory; da.cpp starts listing at once
StartAnalysis ==
    /\ phase' = "running"
    /\ analyses' = analyses + 1
    /\ IF variant = "mt"
       THEN /\ SetCounters(ZeroCounters)
            /\ processedDirs' = {}
            /\ frames' = (RootPath :> NewFrame(RootPath, <<>>, FALSE, "claim"))
       ELSE /\ UNCHANGED <<counters, processedDirs>>
            /\ frames' = (RootPath :> NewFrame(RootPath, <<>>, FALSE, "list"))
    /\ UNCHANGED <<config, statsMutex, attributed, outcome, firstResult>>
    /\ UNCHANGED apart

\* main: analyzer.analyze(targetDir)
analyze ==
    /\ phase = "config"
    /\ StartAnalysis

\* a caller of the class calls analyze(targetDir) again on the same analyzer
analyzeAgain ==
    /\ phase = "done"
    /\ analyses < MaxAnalyses
    /\ StartAnalysis

ArgumentErrors ==
    {"Invalid size value", "Invalid size unit", "option requires an argument",
     "No directory specified", "Invalid directory"}
    \cup (IF variant = "mt" THEN {"Invalid thread count"} ELSE {})

\* main: the argument loop and the checks of targetDir end the run, before
\* the analyzer is constructed and configured: -h prints the usage text and
\* returns 0, an error is thrown into the catch clause
parseArguments(result) ==
    /\ phase = "config"
    /\ includeTypes = {}
    /\ excludeDirs = <<>>
    /\ sizeThreshold = [minSize |-> 0, maxSize |-> SIZE_MAX]
    /\ IF result = "help"
       THEN /\ phase' = "exited"
            /\ console' = <<"usage">>
            /\ exitCode' = 0
       ELSE /\ result \in ArgumentErrors
            /\ phase' = "aborted"
            /\ Fatal(result)
    /\ UNCHANGED <<config, counters, processedDirs, statsMutex, frames,
                   attributed, passes>>
    /\ UNCHANGED apart

\* formatSize for a size below 1024: the number with two decimals, and the
\* unit B
formatSize(bytes) == <<bytes, "B">>

\* FileAnalyzer::printResults: what it writes: "No files found." and nothing
\* else when totalFiles is 0, otherwise the summary and the table, and the
\* line of the hidden files
printResults ==
    IF totalFiles = 0 THEN <<"No files found.">>
    ELSE <<"table">> \o (IF ~showHidden /\ hiddenFiles > 0
                         THEN <<"Hidden files">> ELSE <<>>)

\* the last row of the file: "Hidden files", hiddenFiles, hiddenSize (and in
\* README.md formatSize(hiddenSize))
HiddenRow ==
    IF ~showHidden /\ hiddenFiles > 0
    THEN <<[label |-> "Hidden files", count |-> hiddenFiles,
            totalSize |-> hiddenSize,
            human |-> IF variant = "mt" THEN formatSize(hiddenSize) ELSE <<>>]>>
    ELSE <<>>

\* the file exportCsv writes: the header, one row per entry of stats in the
\* order of the unordered_map, the row of the hidden files
CsvContents ==
    [header |-> IF variant = "mt" THEN "FileType,Count,TotalSize,SizeHuman"
                ELSE "FileType,Count,TotalSize",
     rows |-> {[label |-> escapeCSV(k), count |-> stats[k].count,
                totalSize |-> stats[k].totalSize,
                human |-> IF variant = "mt" THEN formatSize(stats[k].totalSize)
                          ELSE <<>>] : k \in DOMAIN stats},
     last |-> HiddenRow]

\* FileAnalyzer::exportCsv(filename): what it writes, and whether it threw
\* "Cannot create output file"
exportCsv(creatable) ==
    [out |-> IF creatable THEN <<"Results exported">> ELSE <<>>,
     file |-> IF creatable THEN <<CsvContents>> ELSE NoFile,
     threw |-> ~creatable]

OutputFiles == {"", "creatable", "not creatable"}

\* main after analyze has returned: printResults(), then exportCsv(outputFile)
\* when -o named a file, then return 0; an exception of exportCsv ends in the
\* catch clause
report(outputFile) ==
    /\ phase = "done"
    /\ phase' = "exited"
    /\ LET e == exportCsv(outputFile = "creatable")
       IN IF outputFile = ""
          THEN console' = console \o printResults /\ exitCode' = 0
          ELSE IF e.threw
          THEN /\ console' = console \o printResults \o e.out
                                \o <<"Cannot create output file", "usage">>
               /\ exitCode' = 1
          ELSE console' = console \o printResults \o e.out /\ exitCode' = 0
    /\ csvFile' = IF outputFile = "" THEN csvFile
                  ELSE exportCsv(outputFile = "creatable").file
    /\ UNCHANGED <<config, counters, processedDirs, statsMutex, frames,
                   attributed, passes>>
    /\ UNCHANGED calls

-----------------------------------------------------------------------------
(* da.cpp: analyze, one iteration of its loop over the directory entries *)

Attr(ep, n, how) == [path |-> ep, node |-> Canon(tree, n), how |-> how]

SeqEntry(p) ==
    /\ Running(p)
    /\ variant = "seq"
    /\ frames[p].pc = "list"
    /\ frames[p].ei <= Len(frames[p].entries)
    /\ LET n == frames[p].entries[frames[p].ei]
           ep == EPath(p, n)
           next == [frames EXCEPT ![p].ei = @ + 1]
           g == SeqGitEffect(Cur, Canon(tree, n))
       IN IF shouldExclude(ep)
          THEN frames' = next /\ UNCHANGED <<counters, phase, attributed>>
          ELSE IF StatusFails(tree, n)
          THEN phase' = "aborted" /\ UNCHANGED <<counters, frames, attributed>>
          ELSE IF IsDirectory(tree, n)
          THEN IF tree[n].name = nGit
               THEN /\ SetCounters(g.c)
                    /\ phase' = IF g.threw THEN "aborted" ELSE phase
                    /\ frames' = IF g.threw THEN frames ELSE next
                    /\ attributed' = IF g.threw THEN attributed
                                     ELSE attributed \cup {Attr(ep, n, "git")}
               ELSE /\ frames' = (ep :> NewFrame(ep, p, FALSE, "list"))
                                    @@ [frames EXCEPT ![p].pc = "call"]
                    /\ UNCHANGED <<counters, phase, attributed>>
          ELSE IF IsRegularFile(tree, n)
          THEN /\ SetCounters(SeqFileEffect(Cur, ep, n))
               /\ attributed' = IF SeqFileCounted(Cur, ep, n)
                                THEN attributed \cup {Attr(ep, n, "file")}
                                ELSE attributed
               /\ frames' = next
               /\ UNCHANGED phase
          ELSE frames' = next /\ UNCHANGED <<counters, phase, attributed>>
    /\ UNCHANGED <<config, processedDirs, statsMutex>>
    /\ CatchInMain("filesystem error")
    /\ UNCHANGED passes
    /\ UNCHANGED apart

\* the loop of analyze(path) has run out: the call returns
SeqReturn(p) ==
    /\ Running(p)
    /\ variant = "seq"
    /\ frames[p].pc = "list"
    /\ frames[p].ei > Len(frames[p].entries)
    /\ frames' = Returned(frames, p)
    /\ phase' = PhaseAfterReturn(p)
    /\ UNCHANGED <<config, counters, processedDirs, statsMutex, attributed>>
    /\ NoteResult
    /\ UNCHANGED <<outcome, analyses>>
    /\ UNCHANGED apart

-----------------------------------------------------------------------------
(* README.md: processDirectory and processFile *)

\* the check of processedDirs and the insert, under processedDirsMutex
Claim(p) ==
    /\ Running(p)
    /\ frames[p].pc = "claim"
    /\ IF p \in processedDirs
       THEN /\ frames' = Returned(frames, p)
            /\ phase' = PhaseAfterReturn(p)
            /\ UNCHANGED processedDirs
       ELSE /\ processedDirs' = processedDirs \cup {p}
            /\ frames' = [frames EXCEPT
                              ![p] = Advance([@ EXCEPT !.pc = "list"])]
            /\ UNCHANGED phase
    /\ UNCHANGED <<config, counters, statsMutex, attributed>>
    /\ NoteResult
    /\ UNCHANGED <<outcome, analyses>>
    /\ UNCHANGED apart

\* one iteration of the directory_iterator loop
MTListEntry(p) ==
    /\ Running(p)
    /\ variant = "mt"
    /\ frames[p].pc = "list"
    /\ frames[p].ei <= Len(frames[p].entries)
    /\ LET f == frames[p]
           n == f.entries[f.ei]
           ep == EPath(p, n)
           g == GitSizeMT(tree, Canon(tree, n))
           step(h) == [frames EXCEPT ![p] = Advance([h EXCEPT !.ei = @ + 1])]
       IN IF shouldExclude(ep)
          THEN frames' = step(f) /\ UNCHANGED <<counters, attributed>>
          ELSE IF StatusFails(tree, n)
          THEN /\ frames' = [frames EXCEPT
                                ![p] = Advance([f EXCEPT
                                                  !.ei = Len(f.entries) + 1])]
               /\ UNCHANGED <<counters, attributed>>
          ELSE IF IsDirectory(tree, n)
          THEN IF tree[n].name = nGit
               THEN /\ attributed' = attributed \cup {Attr(ep, n, "git")}
                    /\ IF showHidden
                       THEN /\ SetCounters(AddTotal(Cur, g))
                            /\ frames' = [frames EXCEPT ![p].pc = "gitlock",
                                                        ![p].pend = g]
                       ELSE /\ SetCounters(AddHidden(AddTotal(Cur, g), g))
                            /\ frames' = step(f)
               ELSE /\ frames' = step([f EXCEPT !.subDirs = Append(@, n)])
                    /\ UNCHANGED <<counters, attributed>>
          ELSE IF IsRegularFile(tree, n)
          THEN /\ frames' = step([f EXCEPT !.files = Append(@, n)])
               /\ UNCHANGED <<counters, attributed>>
          ELSE frames' = step(f) /\ UNCHANGED <<counters, attributed>>
    /\ UNCHANGED <<config, processedDirs, statsMutex, phase>>
    /\ UNCHANGED <<outcome, passes>>
    /\ UNCHANGED apart

\* std::lock_guard<std::mutex> lock(statsMutex)
MTLock(p) ==
    /\ Running(p)
    /\ frames[p].pc \in {"gitlock", "filelock"}
    /\ MutexFree(statsMutex)
    /\ statsMutex' = p
    /\ frames' = [frames EXCEPT ![p].pc =
                      IF @ = "gitlock" THEN "gitupd" ELSE "fileupd"]
    /\ UNCHANGED <<config, counters, processedDirs, phase, attributed>>
    /\ UNCHANGED <<outcome, passes>>
    /\ UNCHANGED apart

\* stats[".git"].update(gitSize); totalFiles++; and the lock is released
MTGitUpdate(p) ==
    /\ Running(p)
    /\ frames[p].pc = "gitupd"
    /\ SetCounters(AddStatMT(Cur, KGit, frames[p].pend))
    /\ statsMutex' = NoOwner
    /\ frames' = [frames EXCEPT ![p] =
                      Advance([@ EXCEPT !.pc = "list", !.ei = @ + 1,
                                        !.pend = 0])]
    /\ UNCHANGED <<config, processedDirs, phase, attributed>>
    /\ UNCHANGED <<outcome, passes>>
    /\ UNCHANGED apart

\* processFile up to the branch on the hidden name
MTFileStart(p) ==
    /\ Running(p)
    /\ frames[p].pc = "files"
    /\ LET f == frames[p]
           n == f.files[f.fi]
           ep == EPath(p, n)
           size == tree[n].size
           step == [frames EXCEPT ![p] = Advance([f EXCEPT !.fi = @ + 1])]
       IN IF ~tree[n].sizeOk \/ ~isWithinSizeThreshold(size)
             \/ ~shouldInclude(getFileType(ep))
          THEN frames' = step /\ UNCHANGED <<counters, attributed>>
          ELSE /\ attributed' = attributed \cup {Attr(ep, n, "file")}
               /\ IF IsDotName(ep) /\ ~showHidden
                  THEN /\ SetCounters(AddHidden(AddTotal(Cur, size), size))
                       /\ frames' = step
                  ELSE /\ SetCounters(AddTotal(Cur, size))
                       /\ frames' = [frames EXCEPT ![p].pc = "filelock",
                                                   ![p].pend = size]
    /\ UNCHANGED <<config, processedDirs, statsMutex, phase>>
    /\ UNCHANGED <<outcome, passes>>
    /\ UNCHANGED apart

\* stats[fileType].update(size); totalFiles++; and the lock is released
MTFileUpdate(p) ==
    /\ Running(p)
    /\ frames[p].pc = "fileupd"
    /\ SetCounters(AddStatMT(Cur,
                       getFileType(EPath(p, frames[p].files[frames[p].fi])),
                       frames[p].pend))
    /\ statsMutex' = NoOwner
    /\ frames' = [frames EXCEPT ![p] =
                      Advance([@ EXCEPT !.pc = "files", !.fi = @ + 1,
                                        !.pend = 0])]
    /\ UNCHANGED <<config, processedDirs, phase, attributed>>
    /\ UNCHANGED <<outcome, passes>>
    /\ UNCHANGED apart

\* mutant: the number of subdirectories is not looked at
FanOutAnyCount(f) == numThreads > 1 /\ Len(f.subDirs) > 0

\* numThreads > 1 && subDirs.size() > 1
FanOut(f) == numThreads > 1 /\ Len(f.subDirs) > 1

\* mutant: the spawn loop starts at the second subdirectory
SubPathsSkipFirst(p, f) == {EPath(p, f.subDirs[i]) : i \in 2..Len(f.subDirs)}

SubPaths(p, f) == {EPath(p, f.subDirs[i]) : i \in 1..Len(f.subDirs)}

\* one std::async(std::launch::async, ...) per subdirectory
Dispatch(p) ==
    /\ Running(p)
    /\ frames[p].pc = "subdirs"
    /\ FanOut(frames[p])
    /\ frames' = [q \in (DOMAIN frames) \cup SubPaths(p, frames[p]) |->
                      IF q \in SubPaths(p, frames[p])
                      THEN NewFrame(q, p, TRUE, "claim")
                      ELSE IF q = p THEN [frames[p] EXCEPT !.pc = "wait"]
                      ELSE frames[q]]
    /\ UNCHANGED <<config, counters, processedDirs, statsMutex, phase,
                   attributed>>
    /\ UNCHANGED <<outcome, passes>>
    /\ UNCHANGED apart

\* mutant: wait() returns at once
FutureReadyAlways(q) == TRUE

\* future.wait() returns: the task of the future has finished
FutureReady(q) == frames[q].pc = "done"

\* future.wait() on every future
Join(p) ==
    /\ Running(p)
    /\ frames[p].pc = "wait"
    /\ \A q \in SubPaths(p, frames[p]) : FutureReady(q)
    /\ frames' = Returned(frames, p)
    /\ phase' = PhaseAfterReturn(p)
    /\ UNCHANGED <<config, counters, processedDirs, statsMutex, attributed>>
    /\ NoteResult
    /\ UNCHANGED <<outcome, analyses>>
    /\ UNCHANGED apart

\* the sequential loop: processDirectory(subDir) in the calling thread
CallNext(p) ==
    /\ Running(p)
    /\ frames[p].pc = "subdirs"
    /\ ~FanOut(frames[p])
    /\ frames[p].si <= Len(frames[p].subDirs)
    /\ LET q == EPath(p, frames[p].subDirs[frames[p].si])
       IN frames' = (q :> NewFrame(q, p, FALSE, "claim"))
                       @@ [frames EXCEPT ![p].pc = "call"]
    /\ UNCHANGED <<config, counters, processedDirs, statsMutex, phase,
                   attributed>>
    /\ UNCHANGED <<outcome, passes>>
    /\ UNCHANGED apart

\* processDirectory returns after its sequential loop
Return(p) ==
    /\ Running(p)
    /\ frames[p].pc = "subdirs"
    /\ ~FanOut(frames[p])
    /\ frames[p].si > Len(frames[p].subDirs)
    /\ frames' = Returned(frames, p)
    /\ phase' = PhaseAfterReturn(p)
    /\ UNCHANGED <<config, counters, processedDirs, statsMutex, attributed>>
    /\ NoteResult
    /\ UNCHANGED <<outcome, analyses>>
    /\ UNCHANGED apart

-----------------------------------------------------------------------------
(* README.md with one worker: processDirectory as a function of the tree *)

\* processFile(filePath) as a whole
FileEffectMT(c, ep, n) ==
    IF ~tree[n].sizeOk \/ ~PassesFilters(ep, tree[n].size) THEN c
    ELSE IF IsDotName(ep) /\ ~showHidden
         THEN AddHidden(AddTotal(c, tree[n].size), tree[n].size)
         ELSE AddStatMT(AddTotal(c, tree[n].size), getFileType(ep),
                        tree[n].size)

\* the .git branch of processDirectory as a whole
GitEffectMT(c, n) ==
    LET g == GitSizeMT(tree, Canon(tree, n))
    IN IF showHidden THEN AddStatMT(AddTotal(c, g), KGit, g)
       ELSE AddHidden(AddTotal(c, g), g)

\* the entries the directory_iterator loop of processDirectory(p) gets
\* through: the loop is left at the first entry whose status cannot be read
ListedEntries(p) ==
    LET all == Children(tree, Identity(tree, p))
        bad == {i \in 1..Len(all) :
                   /\ ~shouldExcludeMT(tree, excludeDirs, EPath(p, all[i]))
                   /\ StatusFails(tree, all[i])}
    IN IF bad = {} THEN all
       ELSE SubSeq(all, 1, (CHOOSE i \in bad : \A j \in bad : i <= j) - 1)

RECURSIVE ProcessDirectoryOneWorker(_, _)
\* acc = [c: the counters, pd: processedDirs]; the entry loop, then the file
\* loop, then the sequential loop over the subdirectories
ProcessDirectoryOneWorker(acc, p) ==
    IF p \in acc.pd THEN acc
    ELSE
      LET kids == ListedEntries(p)
          ep(i) == EPath(p, kids[i])
          isGit(i) == /\ ~shouldExcludeMT(tree, excludeDirs, ep(i))
                      /\ IsDirectory(tree, kids[i])
                      /\ tree[kids[i]].name = nGit
          isSub(i) == /\ ~shouldExcludeMT(tree, excludeDirs, ep(i))
                      /\ IsDirectory(tree, kids[i])
                      /\ tree[kids[i]].name # nGit
          isFile(i) == /\ ~shouldExcludeMT(tree, excludeDirs, ep(i))
                       /\ ~IsDirectory(tree, kids[i])
                       /\ IsRegularFile(tree, kids[i])
          G[i \in 0..Len(kids)] ==
              IF i = 0 THEN acc.c
              ELSE IF isGit(i) THEN GitEffectMT(G[i - 1], kids[i])
              ELSE G[i - 1]
          Fl[i \in 0..Len(kids)] ==
              IF i = 0 THEN G[Len(kids)]
              ELSE IF isFile(i) THEN FileEffectMT(Fl[i - 1], ep(i), kids[i])
              ELSE Fl[i - 1]
          S[i \in 0..Len(kids)] ==
              IF i = 0 THEN [c |-> Fl[Len(kids)], pd |-> acc.pd \cup {p}]
              ELSE IF isSub(i) THEN ProcessDirectoryOneWorker(S[i - 1], ep(i))
              ELSE S[i - 1]
      IN S[Len(kids)]

OneWorkerResult ==
    ProcessDirectoryOneWorker([c |-> ZeroCounters, pd |-> {}], RootPath).c

-----------------------------------------------------------------------------
(* escapeCSV as a function of its argument *)

InitEscape ==
    /\ variant \in {"seq", "mt"}
    /\ tree = TreeWide
    /\ showHidden = FALSE
    /\ includeTypes = {}
    /\ sizeThreshold = [minSize |-> 0, maxSize |-> SIZE_MAX]
    /\ excludeDirs = <<>>
    /\ numThreads = 1
    /\ stats = <<>>
    /\ totalFiles = 0
    /\ totalSize = 0
    /\ hiddenFiles = 0
    /\ hiddenSize = 0
    /\ processedDirs = {}
    /\ statsMutex = NoOwner
    /\ frames = <<>>
    /\ phase = "config"
    /\ attributed = {}
    /\ console = <<>>
    /\ exitCode = NotExited
    /\ analyses = 0
    /\ firstResult = ZeroCounters
    /\ str \in Labels
    /\ escaped = NotEscaped
    /\ tasks = <<>>
    /\ processedDirsMutex = NoOwner
    /\ arg = <<>>
    /\ ret = NotCalled
    /\ csvFile = NoFile

\* file << escapeCSV(fileType)
escapeField ==
    /\ escaped = NotEscaped
    /\ escaped' = escapeCSV(str)
    /\ UNCHANGED <<config, counters, processedDirs, statsMutex, frames, phase,
                   attributed, outcome, passes, str, tasks,
                   processedDirsMutex, single, csvFile>>

SpecEscape == InitEscape /\ [][escapeField]_vars

-----------------------------------------------------------------------------
(* README.md: processDirectory called by several tasks, the check of
   processedDirs statement by statement *)

\* the directories the tasks are called with: r/a, r/b, r/c of TreeWide
TaskPaths == {<<nR, nA>>, <<nR, nB>>, <<nR, nC>>}

InitTasks ==
    /\ variant = "mt"
    /\ tree = TreeWide
    /\ showHidden \in BOOLEAN
    /\ includeTypes = {}
    /\ sizeThreshold = [minSize |-> 0, maxSize |-> SIZE_MAX]
    /\ excludeDirs = <<>>
    /\ numThreads = MaxTasks
    /\ stats = <<>>
    /\ totalFiles = 0
    /\ totalSize = 0
    /\ hiddenFiles = 0
    /\ hiddenSize = 0
    /\ processedDirs = {}
    /\ statsMutex = NoOwner
    /\ frames = <<>>
    /\ phase = "running"
    /\ attributed = {}
    /\ console = <<>>
    /\ exitCode = NotExited
    /\ analyses = 1
    /\ firstResult = ZeroCounters
    /\ str = <<>>
    /\ escaped = NotEscaped
    /\ tasks \in [1..MaxTasks -> [dirPath : TaskPaths, pc : {"call"}]]
    /\ processedDirsMutex = NoOwner
    /\ arg = <<>>
    /\ ret = NotCalled
    /\ csvFile = NoFile

TaskStep(t, from, to) ==
    /\ t \in DOMAIN tasks
    /\ tasks[t].pc = from
    /\ tasks' = [tasks EXCEPT ![t].pc = to]

\* std::lock_guard<std::mutex> lock(processedDirsMutex)
TaskLock(t) ==
    /\ TaskStep(t, "call", "locked")
    /\ MutexFree(processedDirsMutex)
    /\ processedDirsMutex' = <<t>>
    /\ UNCHANGED <<config, counters, processedDirs, statsMutex, frames, phase,
                   attributed, outcome, passes, csvField, single, csvFile>>

\* processedDirs.find(dirPathStr) != processedDirs.end()
TaskFind(t) ==
    /\ TaskStep(t, "locked",
                IF tasks[t].dirPath \in processedDirs THEN "found"
                ELSE "absent")
    /\ UNCHANGED <<config, counters, processedDirs, statsMutex, frames, phase,
                   attributed, outcome, passes, csvField,
                   processedDirsMutex, single, csvFile>>

\* return; the lock_guard releases the mutex
TaskReturn(t) ==
    /\ TaskStep(t, "found", "returned")
    /\ processedDirsMutex' = NoOwner
    /\ UNCHANGED <<config, counters, processedDirs, statsMutex, frames, phase,
                   attributed, outcome, passes, csvField, single, csvFile>>

\* processedDirs.insert(dirPathStr); the block ends and releases the mutex,
\* and the task goes on to list the directory
TaskInsert(t) ==
    /\ TaskStep(t, "absent", "listing")
    /\ processedDirs' = processedDirs \cup {tasks[t].dirPath}
    /\ processedDirsMutex' = NoOwner
    /\ frames' = (tasks[t].dirPath :>
                     Advance(NewFrame(tasks[t].dirPath, RootPath, TRUE,
                                      "list"))) @@ frames
    /\ UNCHANGED <<config, counters, statsMutex, phase, attributed, outcome,
                   passes, csvField, single, csvFile>>

\* processDirectory(dirPath) has run to its end
TaskReturned(t) ==
    /\ TaskStep(t, "listing", "done")
    /\ frames[tasks[t].dirPath].pc = "done"
    /\ UNCHANGED <<config, counters, processedDirs, statsMutex, frames, phase,
                   attributed, outcome, passes, csvField,
                   processedDirsMutex, single, csvFile>>

\* the tasks, and the steps of processDirectory in the directories they list
\* (the directories of TaskPaths hold no subdirectory but .git)
NextTasks ==
    \/ \E t \in DOMAIN tasks : TaskLock(t)
    \/ \E t \in DOMAIN tasks : TaskFind(t)
    \/ \E t \in DOMAIN tasks : TaskReturn(t)
    \/ \E t \in DOMAIN tasks : TaskInsert(t)
    \/ \E t \in DOMAIN tasks : TaskReturned(t)
    \/ \E p \in DOMAIN frames : MTListEntry(p)
    \/ \E p \in DOMAIN frames : MTLock(p)
    \/ \E p \in DOMAIN frames : MTGitUpdate(p)
    \/ \E p \in DOMAIN frames : MTFileStart(p)
    \/ \E p \in DOMAIN frames : MTFileUpdate(p)
    \/ \E p \in DOMAIN frames : Return(p)

SpecTasks == InitTasks /\ [][NextTasks]_vars

-----------------------------------------------------------------------------
(* shouldExclude as a function of the path, the exclude list and the file
   system *)

\* exclude directories: those of ExcludeChoices, the root, a symlink that
\* loops
ExcludeArgs == ExcludeChoices \cup {<<nR>>, <<nR, nO>>}

\* paths: entries of the trees, and paths below and beside them
PathArgs ==
    {<<nR, nA>>, <<nR, nB>>, <<nR, nD>>, <<nR, nO>>, <<nR, nA, nXtxt>>,
     <<nR, nO, nW>>, <<nZZ, nA>>, <<nZZ>>, <<nDot, nR, nA, nS>>}

InitExclude ==
    /\ variant \in {"seq", "mt"}
    /\ tree \in Trees
    /\ showHidden = FALSE
    /\ includeTypes = {}
    /\ sizeThreshold = [minSize |-> 0, maxSize |-> SIZE_MAX]
    /\ excludeDirs \in UNION {[1..k -> ExcludeArgs] : k \in 0..MaxExcludes + 1}
    /\ numThreads = 1
    /\ stats = <<>>
    /\ totalFiles = 0
    /\ totalSize = 0
    /\ hiddenFiles = 0
    /\ hiddenSize = 0
    /\ processedDirs = {}
    /\ statsMutex = NoOwner
    /\ frames = <<>>
    /\ phase = "running"
    /\ attributed = {}
    /\ console = <<>>
    /\ exitCode = NotExited
    /\ analyses = 1
    /\ firstResult = ZeroCounters
    /\ str = <<>>
    /\ escaped = NotEscaped
    /\ tasks = <<>>
    /\ processedDirsMutex = NoOwner
    /\ arg \in PathArgs
    /\ ret = NotCalled
    /\ csvFile = NoFile

\* shouldExclude(entry.path())
callShouldExclude ==
    /\ ret = NotCalled
    /\ ret' = <<shouldExclude(arg)>>
    /\ UNCHANGED <<config, counters, processedDirs, statsMutex, frames, phase,
                   attributed, outcome, passes, csvField, tasks,
                   processedDirsMutex, arg, csvFile>>

SpecExclude == InitExclude /\ [][callShouldExclude]_vars

-----------------------------------------------------------------------------
(* getFileType as a function of the path *)

\* the characters of a file name: the dot, a lower-case and an upper-case
\* letter
NameChars == {".", "a", "T"}

\* file names of up to MaxName characters, the empty name (a path that ends
\* with the separator) among them
NameArgs == UNION {[1..k -> NameChars] : k \in 0..MaxName}

\* the empty path, a file name alone, a file name below r
TypeArgs == {<<>>} \cup {<<n>> : n \in NameArgs} \cup {<<nR, n>> : n \in NameArgs}

InitClassify ==
    /\ variant \in {"seq", "mt"}
    /\ tree = TreeWide
    /\ showHidden = FALSE
    /\ includeTypes = {}
    /\ sizeThreshold = [minSize |-> 0, maxSize |-> SIZE_MAX]
    /\ excludeDirs = <<>>
    /\ numThreads = 1
    /\ stats = <<>>
    /\ totalFiles = 0
    /\ totalSize = 0
    /\ hiddenFiles = 0
    /\ hiddenSize = 0
    /\ processedDirs = {}
    /\ statsMutex = NoOwner
    /\ frames = <<>>
    /\ phase = "running"
    /\ attributed = {}
    /\ console = <<>>
    /\ exitCode = NotExited
    /\ analyses = 1
    /\ firstResult = ZeroCounters
    /\ str = <<>>
    /\ escaped = NotEscaped
    /\ tasks = <<>>
    /\ processedDirsMutex = NoOwner
    /\ arg \in TypeArgs
    /\ ret = NotCalled
    /\ csvFile = NoFile

\* std::string fileType = getFileType(entry.path())
callGetFileType ==
    /\ ret = NotCalled
    /\ ret' = <<getFileType(arg)>>
    /\ UNCHANGED <<config, counters, processedDirs, statsMutex, frames, phase,
                   attributed, outcome, passes, csvField, tasks,
                   processedDirsMutex, arg, csvFile>>

SpecClassify == InitClassify /\ [][callGetFileType]_vars

-----------------------------------------------------------------------------

Next ==
    \/ \E mn \in ThresholdValues, mx \in ThresholdValues :
           setSizeThreshold([minSize |-> mn, maxSize |-> mx])
    \/ \E dir \in ExcludeChoices : addExcludeDir(dir)
    \/ \E type \in TypeChoices : addIncludeType(type)
    \/ \E threads \in 0..MaxThreads : setThreadCount(threads)
    \/ analyze
    \/ \E result \in {"help"} \cup ArgumentErrors : parseArguments(result)
    \/ \E outputFile \in OutputFiles : report(outputFile)
    \/ \E p \in DOMAIN frames : SeqEntry(p)
    \/ \E p \in DOMAIN frames : SeqReturn(p)
    \/ \E p \in DOMAIN frames : Claim(p)
    \/ \E p \in DOMAIN frames : MTListEntry(p)
    \/ \E p \in DOMAIN frames : MTLock(p)
    \/ \E p \in DOMAIN frames : MTGitUpdate(p)
    \/ \E p \in DOMAIN frames : MTFileStart(p)
    \/ \E p \in DOMAIN frames : MTFileUpdate(p)
    \/ \E p \in DOMAIN frames : Dispatch(p)
    \/ \E p \in DOMAIN frames : Join(p)
    \/ \E p \in DOMAIN frames : CallNext(p)
    \/ \E p \in DOMAIN frames : Return(p)

Spec == Init /\ [][Next]_vars

\* one step of the traversal, by any of its tasks
Traverse ==
    \E p \in DOMAIN frames :
        \/ SeqEntry(p) \/ SeqReturn(p)
        \/ Claim(p) \/ MTListEntry(p) \/ MTLock(p) \/ MTGitUpdate(p)
        \/ MTFileStart(p) \/ MTFileUpdate(p)
        \/ Dispatch(p) \/ Join(p) \/ CallNext(p) \/ Return(p)

\* main with the default configuration: analyze, then the traversal
NextLive == analyze \/ Traverse

\* the threads of the traversal are scheduled: while some task can take a
\* step, a step is taken
SpecLive == Init /\ [][NextLive]_vars /\ WF_vars(Traverse)

\* main with the default configuration, but for -a, on TreeDot
InitDot ==
    /\ variant \in {"seq", "mt"}
    /\ tree = TreeDot
    /\ showHidden \in BOOLEAN
    /\ includeTypes = {}
    /\ sizeThreshold = [minSize |-> 0, maxSize |-> SIZE_MAX]
    /\ excludeDirs = <<>>
    /\ numThreads \in (IF variant = "mt" THEN 1..MaxThreads ELSE {1})
    /\ stats = <<>>
    /\ totalFiles = 0
    /\ totalSize = 0
    /\ hiddenFiles = 0
    /\ hiddenSize = 0
    /\ processedDirs = {}
    /\ statsMutex = NoOwner
    /\ frames = <<>>
    /\ phase = "config"
    /\ attributed = {}
    /\ console = <<>>
    /\ exitCode = NotExited
    /\ analyses = 0
    /\ firstResult = ZeroCounters
    /\ str = <<>>
    /\ escaped = NotEscaped
    /\ tasks = <<>>
    /\ processedDirsMutex = NoOwner
    /\ arg = <<>>
    /\ ret = NotCalled
    /\ csvFile = NoFile

SpecDot == InitDot /\ [][NextLive]_vars

-----------------------------------------------------------------------------
(* README.md: the worker count, from -j to the traversal *)

\* the largest unsigned int
UINT_MAX == 7

\* unsigned int x = i
ToUnsigned(i) == i % (UINT_MAX + 1)

\* the integers std::stoi reads from the texts given to -j
IntOfText ==
    ("-4" :> 0 - 4) @@ ("-1" :> 0 - 1) @@ ("0" :> 0) @@ ("1" :> 1)
    @@ ("2" :> 2) @@ ("3" :> 3)

\* texts given to -j: those of IntOfText, and one that is no number
ThreadArgs == (DOMAIN IntOfText) \cup {"abc"}

\* std::stoi(text): the value, or invalid_argument
stoi(text) ==
    IF text \in DOMAIN IntOfText
    THEN [throws |-> FALSE, value |-> IntOfText[text]]
    ELSE [throws |-> TRUE, value |-> 0]

\* arg is <<>> when -j is not given; numThreads starts as the constructor
\* sets it, hardware_concurrency() or 1
InitThreads ==
    /\ variant = "mt"
    /\ tree = TreeDot
    /\ showHidden \in BOOLEAN
    /\ includeTypes = {}
    /\ sizeThreshold = [minSize |-> 0, maxSize |-> SIZE_MAX]
    /\ excludeDirs = <<>>
    /\ numThreads \in 1..MaxThreads
    /\ stats = <<>>
    /\ totalFiles = 0
    /\ totalSize = 0
    /\ hiddenFiles = 0
    /\ hiddenSize = 0
    /\ processedDirs = {}
    /\ statsMutex = NoOwner
    /\ frames = <<>>
    /\ phase = "config"
    /\ attributed = {}
    /\ console = <<>>
    /\ exitCode = NotExited
    /\ analyses = 0
    /\ firstResult = ZeroCounters
    /\ str = <<>>
    /\ escaped = NotEscaped
    /\ tasks = <<>>
    /\ processedDirsMutex = NoOwner
    /\ arg \in {<<>>} \cup {<<t>> : t \in ThreadArgs}
    /\ ret = NotCalled
    /\ csvFile = NoFile

\* main: threadCount = std::stoi(argv[i]) into the unsigned threadCount, the
\* test threadCount <= 0, and after the loop
\* if (threadCount > 0) analyzer.setThreadCount(threadCount); ret holds
\* threadCount
parseThreadCount ==
    /\ phase = "config"
    /\ arg # <<>>
    /\ ret = NotCalled
    /\ LET r == stoi(arg[1])
           threadCount == ToUnsigned(r.value)
       IN IF r.throws \/ threadCount <= 0
          THEN /\ phase' = "aborted"
               /\ Fatal("Invalid thread count")
               /\ UNCHANGED <<numThreads, ret>>
          ELSE /\ ret' = <<threadCount>>
               /\ numThreads' = IF threadCount > 0 THEN threadCount ELSE 1
               /\ UNCHANGED <<phase, outcome>>
    /\ UNCHANGED <<variant, tree, showHidden, includeTypes, sizeThreshold,
                   excludeDirs, counters, processedDirs, statsMutex, frames,
                   attributed, passes, csvField, tasks, processedDirsMutex,
                   arg, csvFile>>

\* a caller of the class sets the worker count
callSetThreadCount ==
    /\ arg = <<>>
    /\ \E threads \in 0..MaxThreads : setThreadCount(threads)

\* main: analyzer.analyze(targetDir), after the arguments were read
analyzeAfterArguments ==
    /\ arg = <<>> \/ ret # NotCalled
    /\ analyze

NextThreads ==
    \/ parseThreadCount
    \/ callSetThreadCount
    \/ analyzeAfterArguments
    \/ Traverse

SpecThreads == InitThreads /\ [][NextThreads]_vars

\* the class used by a caller that analyzes the same directory again
NextTwice == Next \/ analyzeAgain

SpecTwice == Init /\ [][NextTwice]_vars

-----------------------------------------------------------------------------
(* properties *)

RECURSIVE SumCountsOf(_, _)
\* the sum of the count fields over the keys K of a per-type map
SumCountsOf(st, K) ==
    IF K = {} THEN 0
    ELSE LET k == CHOOSE x \in K : TRUE
         IN st[k].count + SumCountsOf(st, K \ {k})

RECURSIVE SumBytesOf(_, _)
\* the sum of the totalSize fields over the keys K of a per-type map
SumBytesOf(st, K) ==
    IF K = {} THEN 0
    ELSE LET k == CHOOSE x \in K : TRUE
         IN st[k].totalSize + SumBytesOf(st, K \ {k})

SumCounts == SumCountsOf(stats, DOMAIN stats)
SumBytes == SumBytesOf(stats, DOMAIN stats)

\* C1: once a run of analyze has completed, the per-type totalSize values
\* summed over all types, plus hiddenSize, equal totalSize, for every tree,
\* filter configuration, showHidden value and worker count.
ClosedByteAccounting ==
    phase = "done" => SumBytes + hiddenSize = totalSize

\* C2: once a run of analyze has completed, the per-type counts summed over
\* all types equal totalFiles.
ClosedCountAccounting ==
    phase = "done" => Wrap(SumCounts) = totalFiles

\* C3: for the same tree and the same filter configuration, the final per-type
\* counts and bytes, totalFiles, totalSize, hiddenFiles and hiddenSize of the
\* multithreaded variant are, under every interleaving of the directory
\* tasks and for every worker count, those of the run with one worker.
ConcurrencyInvariance ==
    (variant = "mt" /\ phase = "done") => Cur = OneWorkerResult

\* a completed run in which subdirectories ran as concurrent tasks and files
\* of two directories were counted
ConcurrencyInvarianceWitness ==
    /\ variant = "mt"
    /\ phase = "done"
    /\ numThreads > 1
    /\ Cardinality({p \in DOMAIN frames : frames[p].async}) >= 2
    /\ totalFiles >= 2
    /\ totalSize > 0

\* C4: a directory is processed at most once per run by its canonical
\* identity: a directory reachable by two paths is listed once, and each of
\* its files contributes to the counters once.
ProcessedOncePerIdentity ==
    /\ \A p, q \in DOMAIN frames :
          (/\ frames[p].pc # "claim"
           /\ frames[q].pc # "claim"
           /\ frames[p].node = frames[q].node) => p = q
    /\ \A a, b \in attributed : a.node = b.node => a.path = b.path

\* the directory-visit tasks that occupy a thread: an activation that is not
\* finished and is neither waiting for its futures nor inside a synchronous
\* call of processDirectory
Executing ==
    {p \in DOMAIN frames : frames[p].pc \notin {"done", "wait", "call"}}

\* C5: at every moment of a run the number of directory-visit tasks executing
\* concurrently is at most the configured worker count: a directory with
\* more subdirectories than workers is throttled and does not get one running
\* task per subdirectory.
PoolBounded ==
    phase = "running" => Cardinality(Executing) <= numThreads

RECURSIVE SumAttributed(_)
\* the bytes on disk of a set of attributed entries: a file's size, and for a
\* .git directory the sizes of the regular files below it that can be read
SumAttributed(S) ==
    IF S = {} THEN 0
    ELSE LET a == CHOOSE x \in S : TRUE
             below == FilesBelow(tree, Canon(tree, a.node))
             bytes == IF a.how = "git"
                      THEN SumSeq([i \in 1..Len(below) |->
                                     IF tree[below[i]].sizeOk
                                     THEN tree[below[i]].size ELSE 0])
                      ELSE tree[a.node].size
         IN bytes + SumAttributed(S \ {a})

\* C6: a directory named .git is one opaque item: nothing below it is listed
\* or counted, its recursive byte size is added to totalSize, and it counts
\* as one file, in the .git type with showHidden and in the hidden totals
\* without it.
GitIsOpaqueBlob ==
    phase = "done" =>
      /\ \A p \in DOMAIN frames : \A i \in 1..Len(p) : p[i] # nGit
      /\ \A a \in attributed :
            \A i \in 1..(Len(a.path) - 1) : a.path[i] # nGit
      /\ \A p \in DOMAIN frames :
            \A i \in 1..Len(frames[p].entries) :
              LET n == frames[p].entries[i]
              IN (/\ tree[n].name = nGit
                  /\ IsDirectory(tree, n)
                  /\ ~shouldExclude(EPath(p, n)))
                 => Attr(EPath(p, n), n, "git") \in attributed
      /\ totalSize = Wrap(SumAttributed(attributed))
      /\ showHidden =>
            /\ Entry(stats, KGit).count =
                 Wrap(Cardinality({a \in attributed :
                        a.how = "git" \/ getFileType(a.path) = KGit}))
            /\ Entry(stats, KGit).totalSize =
                 Wrap(SumAttributed({a \in attributed :
                        a.how = "git" \/ getFileType(a.path) = KGit}))
      /\ ~showHidden =>
            /\ hiddenFiles = Wrap(Cardinality({a \in attributed :
                                a.how = "git" \/ IsDotName(a.path)}))
            /\ hiddenSize = Wrap(SumAttributed({a \in attributed :
                                a.how = "git" \/ IsDotName(a.path)}))

\* the regular file the activation at p has under its cursor
CursorFile(p) ==
    IF variant = "seq" THEN frames[p].entries[frames[p].ei]
    ELSE frames[p].files[frames[p].fi]

\* this step is the activation at p working on the regular file under its
\* cursor
HandlesFile(p) ==
    IF variant = "seq"
    THEN /\ frames[p].pc = "list"
         /\ frames[p].ei <= Len(frames[p].entries)
         /\ frames'[p] # frames[p]
         /\ ~shouldExclude(EPath(p, CursorFile(p)))
         /\ tree[CursorFile(p)].kind = "file"
    ELSE /\ frames[p].pc \in {"files", "filelock", "fileupd"}
         /\ frames'[p] # frames[p]

\* this step ends the work of the activation at p on the file under its cursor
FinishesFile(p) ==
    /\ HandlesFile(p)
    /\ IF variant = "seq" THEN frames'[p].ei = frames[p].ei + 1
       ELSE frames'[p].fi = frames[p].fi + 1

NameStartsWithDot(n) == tree[n].name[1] = "."

\* min <= s <= max, and the include set is empty or holds the classification
PassesBothGates(p, n) ==
    /\ sizeThreshold.minSize <= tree[n].size
    /\ tree[n].size <= sizeThreshold.maxSize
    /\ includeTypes = {} \/ getFileType(EPath(p, n)) \in includeTypes

NoHiddenBucket ==
    [][showHidden =>
         /\ hiddenFiles' = 0
         /\ hiddenSize' = 0
         /\ \A p \in DOMAIN frames :
              (/\ FinishesFile(p)
               /\ NameStartsWithDot(CursorFile(p))
               /\ tree[CursorFile(p)].sizeOk
               /\ PassesBothGates(p, CursorFile(p)))
              => LET k == getFileType(EPath(p, CursorFile(p)))
                     s == tree[CursorFile(p)].size
                 IN /\ Entry(stats', k).count = Wrap(Entry(stats, k).count + 1)
                    /\ Entry(stats', k).totalSize =
                           Wrap(Entry(stats, k).totalSize + s)
                    /\ totalFiles' = Wrap(totalFiles + 1)]_vars

\* C9: the size threshold and the include-type filter are AND-combined gates:
\* a regular file changes a counter only if min <= s <= max (both inclusive)
\* and its classification passes the include-type filter; a file failing
\* either gate changes no counter, hiddenFiles and hiddenSize included.
FilterGates ==
    [][\A p \in DOMAIN frames :
         (/\ HandlesFile(p)
          /\ tree[CursorFile(p)].sizeOk
          /\ ~PassesBothGates(p, CursorFile(p)))
         => UNCHANGED counters]_vars

\* the files that were listed in the run and are not under an exclude
FilesSeen ==
    {pn \in (DOMAIN frames) \X (1..Len(tree)) :
        /\ \E i \in 1..Len(frames[pn[1]].entries) :
              frames[pn[1]].entries[i] = pn[2]
        /\ tree[pn[2]].kind = "file"
        /\ tree[pn[2]].sizeOk
        /\ ~shouldExclude(EPath(pn[1], pn[2]))}

\* a finished run with both filters set in which one file failed the size
\* gate only, one the type gate only, and one passed both and was counted
FilterGatesWitness ==
    /\ phase = "done"
    /\ includeTypes # {}
    /\ attributed # {}
    /\ \E pn \in FilesSeen :
          /\ tree[pn[2]].size > sizeThreshold.maxSize
          /\ getFileType(EPath(pn[1], pn[2])) \in includeTypes
    /\ \E pn \in FilesSeen :
          /\ tree[pn[2]].size <= sizeThreshold.maxSize
          /\ tree[pn[2]].size >= sizeThreshold.minSize
          /\ getFileType(EPath(pn[1], pn[2])) \notin includeTypes

\* the path is a configured exclude directory or lies below one, the
\* directories compared as strings or by what they name on disk
EqualsOrBelowExclude(ep) ==
    \E i \in 1..Len(excludeDirs) : \E k \in 1..Len(ep) :
        \/ SubSeq(ep, 1, k) = excludeDirs[i]
        \/ /\ Identity(tree, excludeDirs[i]) # Missing
           /\ Identity(tree, SubSeq(ep, 1, k)) = Identity(tree, excludeDirs[i])

-----------------------------------------------------------------------------
(* repeated analysis *)

\* C11: analyze starts from zeroed state: when analyze has been called twice
\* in succession on the same analyzer, configuration and tree, the counters
\* are the ones the first call left.
AnalyzeIdempotent ==
    (phase = "done" /\ analyses = 2) => Cur = firstResult

-----------------------------------------------------------------------------
(* failures of single entries *)

\* the directories whose entries a run has listed
ListedDirs == IF variant = "mt" THEN processedDirs ELSE DOMAIN frames

\* the tree holds an entry whose size or status cannot be read
HasFailingEntry(t) ==
    \E n \in Nodes(t) : ~t[n].sizeOk \/ t[n].kind \in {"broken", "loop"}

\* the regular file entry at position i of listed directory p is readable,
\* not excluded and passes the filters
SoundEntry(p, i) ==
    LET n == frames[p].entries[i]
    IN /\ IsRegularFile(tree, n)
       /\ tree[Canon(tree, n)].sizeOk
       /\ ~shouldExclude(EPath(p, n))
       /\ PassesFilters(EPath(p, n), tree[Canon(tree, n)].size)

\* C12: a failure on one entry (unreadable size, a directory or entry that
\* cannot be inspected, a .git whose size cannot be computed) never leaves
\* the directory task: a started analysis is never aborted, and once it has
\* returned every other entry of the listed directories is accounted.
EntryFailureContained ==
    /\ analyses > 0 => phase # "aborted"
    /\ (phase = "done" /\ HasFailingEntry(tree)) =>
          \A p \in ListedDirs : \A i \in 1..Len(frames[p].entries) :
              SoundEntry(p, i) =>
                  \E a \in attributed :
                      a.path = EPath(p, frames[p].entries[i])

-----------------------------------------------------------------------------
(* overflow *)

\* no counter is smaller after the step than before it
CountersGrow ==
    /\ totalFiles' >= totalFiles
    /\ totalSize' >= totalSize
    /\ hiddenFiles' >= hiddenFiles
    /\ hiddenSize' >= hiddenSize
    /\ \A k \in DOMAIN stats :
          /\ k \in DOMAIN stats'
          /\ stats'[k].count >= stats[k].count
          /\ stats'[k].totalSize >= stats[k].totalSize

\* da.cpp: this step is the activation at p handing an accepted file to
\* FileTypeStats::update, which finds the overflow
UpdateOverflows(p) ==
    /\ variant = "seq"
    /\ HandlesFile(p)
    /\ tree[CursorFile(p)].sizeOk
    /\ PassesBothGates(p, CursorFile(p))
    /\ showHidden \/ ~NameStartsWithDot(CursorFile(p))
    /\ UpdateSeq(Entry(stats, getFileType(EPath(p, CursorFile(p)))),
                 tree[CursorFile(p)].size).threw

\* C13: no counter ever wraps: during a run no step makes a counter smaller,
\* and a step on which an addition would overflow aborts the run instead of
\* being logged and skipped.
NoCounterWraps ==
    [][phase = "running" =>
          /\ CountersGrow
          /\ \A p \in DOMAIN frames : UpdateOverflows(p) => phase' = "aborted"
      ]_vars

-----------------------------------------------------------------------------
(* the size threshold *)

\* C14: setSizeThreshold rejects a threshold with min > max by raising an
\* error and leaves the stored threshold as it was, so min <= max holds for
\* the stored threshold in every state in which a traversal runs.
ThresholdValid ==
    /\ [](phase = "running" => sizeThreshold.minSize <= sizeThreshold.maxSize)
    /\ [][\A mn \in ThresholdValues, mx \in ThresholdValues :
            (mn > mx /\ setSizeThreshold([minSize |-> mn, maxSize |-> mx]))
            => /\ sizeThreshold' = sizeThreshold
               /\ phase' = "aborted"
               /\ exitCode' = 1]_vars

\* a threshold was stored, and a later call with min > max was rejected
ThresholdValidWitness ==
    /\ console = <<"Invalid size threshold", "usage">>
    /\ sizeThreshold # [minSize |-> 0, maxSize |-> SIZE_MAX]
    /\ sizeThreshold.minSize <= sizeThreshold.maxSize

-----------------------------------------------------------------------------
(* the exit status of main *)

\* the messages of the errors of argument parsing and configuration
ConfigurationErrors == ArgumentErrors \cup {"Invalid size threshold"}

\* C15: when argument parsing or configuration fails, main prints the error
\* and the usage text and exits with code 1 without ever starting a
\* traversal; in every other case it exits with code 0, also when no files
\* were found.
ExitStatus ==
    /\ (phase = "aborted" /\ analyses = 0) =>
          /\ exitCode = 1
          /\ Len(console) = 2
          /\ console[1] \in ConfigurationErrors
          /\ console[2] = "usage"
    /\ exitCode = 1 => analyses = 0
    /\ (exitCode # NotExited /\ analyses > 0) => exitCode = 0


\* C16: a fatal error never follows a partial report: in every execution
\* that ends with exit code 1, also when the CSV output file cannot be
\* created, no results table has been printed before the error.
NoReportBeforeFatal ==
    exitCode = 1 => \A i \in 1..Len(console) : console[i] # "table"

-----------------------------------------------------------------------------
(* CSV fields *)

RECURSIVE Unquote(_)
\* reading a quoted CSV field after its opening quote: "" stands for one
\* quote, a single quote closes the field and must be its last character
Unquote(s) ==
    IF s = <<>> THEN [ok |-> FALSE, value |-> <<>>]
    ELSE IF Head(s) # "\""
    THEN LET r == Unquote(Tail(s))
         IN [ok |-> r.ok, value |-> <<Head(s)>> \o r.value]
    ELSE IF Len(s) = 1 THEN [ok |-> TRUE, value |-> <<>>]
    ELSE IF s[2] = "\""
    THEN LET r == Unquote(SubSeq(s, 3, Len(s)))
         IN [ok |-> r.ok, value |-> <<"\"">> \o r.value]
    ELSE [ok |-> FALSE, value |-> <<>>]

\* reading one CSV field: quoted, or bare up to the next separator
ParseField(s) ==
    IF s # <<>> /\ Head(s) = "\"" THEN Unquote(Tail(s))
    ELSE [ok |-> \A i \in 1..Len(s) : s[i] \notin {",", "\"", "\n"},
          value |-> s]

\* the label holds a comma, a double quote or a newline
NeedsQuoting(s) == \E i \in 1..Len(s) : s[i] \in {",", "\"", "\n"}

\* C17: CSV field escaping round-trips: a label that holds a comma, a double
\* quote or a newline is written wrapped in double quotes with every inner
\* quote doubled, and parsing the field recovers the label; a label with
\* none of them is written unchanged.
EscapeRoundTrip ==
    escaped # NotEscaped =>
       /\ ParseField(escaped).ok
       /\ ParseField(escaped).value = str
       /\ NeedsQuoting(str) =>
             escaped = <<"\"">> \o DoubleQuotes(str) \o <<"\"">>
       /\ ~NeedsQuoting(str) => escaped = str

-----------------------------------------------------------------------------
(* the visited set *)

\* two different tasks that were called with the same directory path
SamePath(t1, t2) ==
    /\ t1 \in DOMAIN tasks
    /\ t2 \in DOMAIN tasks
    /\ t1 # t2
    /\ tasks[t1].dirPath = tasks[t2].dirPath

\* the tasks called with path that went on, or go on, to list the directory
Listers(path) ==
    {t \in DOMAIN tasks :
        tasks[t].dirPath = path /\ tasks[t].pc \in {"listing", "done"}}

\* C18: the check of the visited set and the insertion are one atomic claim:
\* when two tasks call processDirectory with the same directory path in one
\* run, exactly one of them lists the directory, and the other returns
\* without changing a counter.
ClaimIsAtomic ==
    /\ [](\A path \in TaskPaths :
            /\ Cardinality(Listers(path)) <= 1
            /\ (\E t \in DOMAIN tasks : /\ tasks[t].dirPath = path
                                         /\ tasks[t].pc = "returned")
               => Cardinality(Listers(path)) = 1)
    /\ [][\A t \in DOMAIN tasks :
            tasks'[t] # tasks[t] => UNCHANGED counters]_vars

\* two tasks were called with the same path: one has listed the directory
\* and counted its files, the other has returned
ClaimIsAtomicWitness ==
    \E t1 \in DOMAIN tasks, t2 \in DOMAIN tasks :
        /\ SamePath(t1, t2)
        /\ tasks[t1].pc = "done"
        /\ tasks[t2].pc = "returned"
        /\ totalSize > 0

-----------------------------------------------------------------------------
(* the per-type map *)

\* the activations that are inside a mutation of the per-type map
InUpdate == {p \in DOMAIN frames : frames[p].pc \in {"gitupd", "fileupd"}}

\* the attributed entries that were handed to stats[key].update
UpdatesOf(key) ==
    {a \in attributed :
        IF a.how = "git" THEN showHidden /\ key = KGit
        ELSE /\ showHidden \/ ~IsDotName(a.path)
             /\ getFileType(a.path) = key}

RECURSIVE SumUpdates(_)
\* the sizes the entries of S were handed to update with
SumUpdates(S) ==
    IF S = {} THEN 0
    ELSE LET a == CHOOSE x \in S : TRUE
         IN (IF a.how = "git" THEN GitSizeMT(tree, a.node)
             ELSE tree[a.node].size) + SumUpdates(S \ {a})

\* C19: mutual exclusion on the per-type map: never two tasks are inside a
\* mutation at once, an entry is inserted or updated only by the task that
\* holds statsMutex, and no increment is lost: after the run every entry
\* holds the number and the bytes of the updates made to it.
StatsMutualExclusion ==
    /\ [](variant = "mt" =>
            /\ Cardinality(InUpdate) <= 1
            /\ \A p \in InUpdate : statsMutex = p)
    /\ [][(variant = "mt" /\ phase = "running" /\ stats' # stats)
            => /\ statsMutex \in InUpdate
               /\ frames'[statsMutex] # frames[statsMutex]
               /\ \A q \in (DOMAIN frames) \ {statsMutex} :
                     frames'[q] = frames[q]]_vars
    /\ []((variant = "mt" /\ phase = "done") =>
            /\ \A key \in DOMAIN stats :
                  /\ stats[key].count = Wrap(Cardinality(UpdatesOf(key)))
                  /\ stats[key].totalSize = Wrap(SumUpdates(UpdatesOf(key)))
            /\ \A a \in attributed : \A key \in {KGit, getFileType(a.path)} :
                  UpdatesOf(key) # {} => key \in DOMAIN stats)

\* one task is inside its update of the map while another task waits for
\* statsMutex
StatsMutualExclusionWitness ==
    /\ variant = "mt"
    /\ \E p \in DOMAIN frames, q \in DOMAIN frames :
          /\ frames[p].pc = "fileupd"
          /\ statsMutex = p
          /\ frames[q].pc = "filelock"

-----------------------------------------------------------------------------
(* the join barrier *)

\* the activation at p has finished after listing its directory
FinishedListing(p) ==
    /\ frames[p].pc = "done"
    /\ variant = "mt" => p \in processedDirs

\* C20: join barrier: a directory task is done only after all its direct files
\* have been folded into the counters and every subtree task it dispatched is
\* done; analyze returns only after every task is done, and no counter changes
\* afterwards.
JoinBarrier ==
    /\ [](\A p \in DOMAIN frames :
            FinishedListing(p) =>
               /\ frames[p].ei > Len(frames[p].entries)
               /\ frames[p].fi > Len(frames[p].files)
               /\ \A i \in 1..Len(frames[p].subDirs) :
                     /\ EPath(p, frames[p].subDirs[i]) \in DOMAIN frames
                     /\ frames[EPath(p, frames[p].subDirs[i])].pc = "done"
               /\ \A q \in DOMAIN frames :
                     frames[q].parent = p => frames[q].pc = "done")
    /\ [](phase = "done" => \A p \in DOMAIN frames : frames[p].pc = "done")
    /\ [][(phase \in {"done", "exited"}) => (UNCHANGED counters)]_vars

\* a finished run in which a directory dispatched one task per subdirectory
\* and files were counted below it
JoinBarrierWitness ==
    /\ phase = "done"
    /\ totalFiles > 0
    /\ \E p \in DOMAIN frames :
          /\ Len(frames[p].subDirs) > 1
          /\ \A i \in 1..Len(frames[p].subDirs) :
                /\ EPath(p, frames[p].subDirs[i]) \in DOMAIN frames
                /\ frames[EPath(p, frames[p].subDirs[i])].async
                /\ frames[EPath(p, frames[p].subDirs[i])].files # <<>>

-----------------------------------------------------------------------------
(* the fan-out policy *)

\* the subdirectories of the directory listed at p that are not excluded and
\* not named .git
PlainSubdirs(p) ==
    {n \in Nodes(tree) : /\ tree[n].parent = frames[p].node
                         /\ IsDirectory(tree, n)
                         /\ tree[n].name # nGit
                         /\ ~shouldExclude(EPath(p, n))}

\* C21: fan-out policy: the subdirectories of a directory are dispatched as
\* concurrent tasks exactly when the worker count is greater than 1 and the
\* directory has more than one non-excluded, non-.git subdirectory; otherwise
\* they are traversed one after another in the calling task and no task is
\* created.
FanOutPolicy ==
    [][variant = "mt" =>
         \A q \in ((DOMAIN frames') \ (DOMAIN frames)) \ {RootPath} :
            LET p == frames'[q].parent
            IN /\ p \in DOMAIN frames
               /\ frames'[q].async <=>
                     (numThreads > 1 /\ Cardinality(PlainSubdirs(p)) > 1)
               /\ frames'[q].async =>
                     /\ frames'[p].pc = "wait"
                     /\ \A n \in PlainSubdirs(p) :
                           /\ EPath(p, n) \in DOMAIN frames'
                           /\ frames'[EPath(p, n)].async
               /\ ~frames'[q].async =>
                     /\ frames'[p].pc = "call"
                     /\ (DOMAIN frames') \ (DOMAIN frames) = {q}]_vars

\* a run in which one directory dispatched its subdirectories as tasks and
\* another, with a single subdirectory, called processDirectory itself
FanOutPolicyWitness ==
    /\ variant = "mt"
    /\ \E q1 \in DOMAIN frames, q2 \in DOMAIN frames :
          /\ frames[q1].async
          /\ ~frames[q2].async
          /\ q2 # RootPath
          /\ numThreads > 1

-----------------------------------------------------------------------------
(* termination *)

\* the tree holds no symlink that leads back to itself
NoSymlinkCycle == \A n \in Nodes(tree) : tree[n].kind # "loop"

\* C22: every run on a finite directory tree without symlink cycles
\* eventually completes, for every worker count: no task waits forever at its
\* join barrier, and every directory task eventually reaches Done.
RunCompletes ==
    [](NoSymlinkCycle /\ phase = "running" =>
          <>(/\ phase = "done"
             /\ \A p \in DOMAIN frames : frames[p].pc = "done"))

-----------------------------------------------------------------------------
(* a regular file whose size cannot be read *)

\* the activation at p is about to read the size of a regular file, and
\* fs::file_size reports an error
SizeFailsAt(p) ==
    /\ phase = "running"
    /\ IF variant = "seq"
       THEN /\ frames[p].pc = "list"
            /\ frames[p].ei <= Len(frames[p].entries)
            /\ ~shouldExclude(EPath(p, CursorFile(p)))
            /\ ~StatusFails(tree, CursorFile(p))
            /\ IsRegularFile(tree, CursorFile(p))
       ELSE /\ frames[p].pc = "files"
            /\ frames[p].fi <= Len(frames[p].files)
    /\ ~tree[CursorFile(p)].sizeOk

-----------------------------------------------------------------------------
(* shouldExclude when fs::equivalent raises an error *)

\* some call of fs::equivalent that shouldExclude(path) can make raises
\* filesystem_error
EquivalenceRaises(path) ==
    \E i \in 1..Len(excludeDirs) :
        \/ Equivalent(tree, path, excludeDirs[i]).throws
        \/ Equivalent(tree, ParentPath(path), excludeDirs[i]).throws

\* the path string starts with some exclude directory followed by the
\* separator
BelowExcludeString(path) ==
    \E i \in 1..Len(excludeDirs) : HasPrefix(path, excludeDirs[i])

\* C24: shouldExclude does not fail: when the equivalence check raises an
\* error (an exclude directory that does not exist, a broken or looping
\* symlink) the call still returns true or false, and it returns true
\* whenever the path string has some exclude directory followed by the
\* separator as a prefix.
ExcludeNeverFails ==
    (ret # NotCalled /\ EquivalenceRaises(arg)) =>
        /\ ret[1] \in BOOLEAN
        /\ BelowExcludeString(arg) => ret[1]

\* da.cpp: fs::equivalent raised in the loop, the catch block found the
\* prefix; and a call where it raised and no prefix matched
ExcludeNeverFailsWitness ==
    /\ variant = "seq"
    /\ ret = <<TRUE>>
    /\ ExcludeLoop(tree, arg, excludeDirs) = "throw"
    /\ BelowExcludeString(arg)

-----------------------------------------------------------------------------
(* the size of the .git blob *)

\* the activation at p has a directory named .git under its cursor, and
\* does not skip it
GitAt(p) ==
    /\ phase = "running"
    /\ frames[p].pc = "list"
    /\ frames[p].ei <= Len(frames[p].entries)
    /\ LET n == frames[p].entries[frames[p].ei]
       IN /\ ~shouldExclude(EPath(p, n))
          /\ ~StatusFails(tree, n)
          /\ IsDirectory(tree, n)
          /\ tree[n].name = nGit

\* the sum of the sizes of the regular files below directory d whose size
\* can be read
ReadableBytesBelow(d) ==
    LET below == FilesBelow(tree, d)
    IN SumSeq([i \in 1..Len(below) |->
                 IF tree[below[i]].sizeOk THEN tree[below[i]].size ELSE 0])

\* C25: the size recorded for a .git blob is the sum of the sizes of the
\* regular files beneath it whose size could be read: the step that handles
\* the .git directory adds exactly that sum to totalSize, a file that cannot
\* be read adds nothing, and the run goes on.
GitBlobSize ==
    [][\A p \in DOMAIN frames :
          (/\ GitAt(p)
           /\ p \in DOMAIN frames'
           /\ frames'[p] # frames[p] \/ phase' # phase) =>
              /\ phase' = "running"
              /\ totalSize' =
                   Wrap(totalSize + ReadableBytesBelow(
                          Canon(tree, frames[p].entries[frames[p].ei])))]_vars

-----------------------------------------------------------------------------
(* FileTypeStats::update when it raises *)

\* C26: da.cpp's FileTypeStats::update is all-or-nothing: on a step where
\* the call raises overflow_error, the count and the totalSize of the entry
\* it was called on are as they were before the call.
UpdateAllOrNothing ==
    [][\A p \in DOMAIN frames :
          UpdateOverflows(p) =>
              LET key == getFileType(EPath(p, CursorFile(p)))
              IN /\ Entry(stats', key).count = Entry(stats, key).count
                 /\ Entry(stats', key).totalSize = Entry(stats, key).totalSize
      ]_vars

-----------------------------------------------------------------------------
(* the .git blob and the file filters *)

\* the step of the activation at p on the .git directory under its cursor
\* attributes the blob: to totalSize, and to the .git entry (with showHidden;
\* README.md makes that update once it holds statsMutex) or to the hidden
\* counters
GitAttributed(p) ==
    LET n == frames[p].entries[frames[p].ei]
    IN /\ phase' = "running"
       /\ Attr(EPath(p, n), n, "git") \in attributed'
       /\ Attr(EPath(p, n), n, "git") \notin attributed
       /\ IF showHidden
          THEN IF variant = "seq"
               THEN /\ Entry(stats', KGit).count = Entry(stats, KGit).count + 1
                    /\ totalFiles' = Wrap(totalFiles + 1)
               ELSE frames'[p].pc = "gitlock"
          ELSE hiddenFiles' = Wrap(hiddenFiles + 1)

\* C27: the .git blob bypasses the file filters: a .git directory that is
\* not excluded is attributed whatever the size threshold and the
\* include-type set are, also when its size lies outside the threshold or
\* the include set is non-empty and does not hold ".git".
GitBypassesFilters ==
    [][\A p \in DOMAIN frames :
          (/\ GitAt(p)
           /\ p \in DOMAIN frames'
           /\ frames'[p] # frames[p] \/ phase' # phase) => GitAttributed(p)
      ]_vars

-----------------------------------------------------------------------------
(* the label of the .git blob *)

\* C28: the label ".git" is reserved for the blob: no regular file that is
\* counted is classified to the key ".git", so the count of the .git entry
\* is the number of .git directories attributed to it.
GitLabelReserved ==
    /\ \A a \in attributed : a.how = "file" => getFileType(a.path) # KGit
    /\ phase = "done" =>
          Entry(stats, KGit).count =
              IF showHidden
              THEN Cardinality({a \in attributed : a.how = "git"})
              ELSE 0

-----------------------------------------------------------------------------
(* directories whose names start with '.' *)

\* the name of node n starts with '.'
DotNamed(n) == tree[n].name # <<>> /\ tree[n].name[1] = "."

\* some directory on the path p has a name that starts with '.'
InDotDirectory(p) == \E i \in 1..Len(p) : p[i] # <<>> /\ p[i][1] = "."

-----------------------------------------------------------------------------
(* the classification of a file name *)

\* the positions of the dots of a name that start an extension: any dot but
\* the first character, in a name other than "." and ".."
ExtensionDots(name) ==
    IF name \in {<<".">>, <<".", ".">>} THEN {}
    ELSE {i \in 2..Len(name) : name[i] = "."}

\* the characters of the name from position i on, ASCII upper-case letters
\* replaced by their lower-case ones
LoweredFrom(name, i) ==
    [j \in 1..(Len(name) - i + 1) |->
        IF name[i + j - 1] = "T" THEN "t" ELSE name[i + j - 1]]

\* C30: getFileType is total and returns [invalid] for an empty path or an
\* empty file name; the extension with its leading dot, lower-cased, when
\* the file name has one; [no extension] when the name does not start with
\* '.' and has no extension; [dotfile] when the name starts with '.' and has
\* no further extension.
ClassifyCases ==
    ret # NotCalled =>
        IF arg = <<>> \/ Last(arg) = <<>> THEN ret[1] = KInvalid
        ELSE IF ExtensionDots(Last(arg)) # {}
             THEN ret[1] = LoweredFrom(Last(arg), Max(ExtensionDots(Last(arg))))
             ELSE IF Last(arg)[1] = "." THEN ret[1] = KDotfile
                  ELSE ret[1] = KNoExtension

\* .a.T was classified as .t: a name that starts with '.' and has a further
\* extension in upper case
ClassifyCasesWitness ==
    /\ arg = <<nR, <<".", "a", ".", "T">>>>
    /\ ret = << <<".", "t">> >>

-----------------------------------------------------------------------------
(* the hidden files in the reports *)

\* main has returned after printResults (and exportCsv, with -o) ran
Reported == phase = "exited" /\ analyses > 0

\* the console output holds the summary line of the hidden files
ConsoleHasHiddenLine == \E i \in 1..Len(console) : console[i] = "Hidden files"

\* the file ends with the row of the hidden files
CsvHasHiddenRow ==
    /\ Len(csvFile[1].last) = 1
    /\ csvFile[1].last[1].label = "Hidden files"
    /\ csvFile[1].last[1].count = hiddenFiles
    /\ csvFile[1].last[1].totalSize = hiddenSize

\* C31: whenever a run ends with hiddenFiles > 0 and showHidden false, both
\* reporters report the hidden files: the console output holds the summary
\* line of the hidden files and the CSV file, when one was written, ends
\* with the Hidden files row, also when totalFiles is 0.
HiddenBucketReported ==
    (Reported /\ ~showHidden /\ hiddenFiles > 0) =>
        /\ ConsoleHasHiddenLine
        /\ csvFile # NoFile => CsvHasHiddenRow

-----------------------------------------------------------------------------
(* the worker count *)

\* -j was given a text that std::stoi reads as a positive integer
AskedPositive == arg # <<>> /\ ~stoi(arg[1]).throws /\ stoi(arg[1]).value > 0

\* C32: the worker count a traversal uses is at least 1 and is a value the
\* operator asked for: without -j it is the default (the hardware
\* parallelism or 1) or what setThreadCount was given, setThreadCount(0)
\* stores 1, and a -j argument that is zero or negative (or no number) is
\* rejected with exit code 1, never stored as a wrapped positive count.
WorkerCountValid ==
    /\ [](phase = "running" => numThreads >= 1)
    /\ []((phase = "running" /\ arg # <<>>) =>
             (AskedPositive /\ numThreads = stoi(arg[1]).value))
    /\ []((arg # <<>> /\ ~AskedPositive /\ phase # "config") =>
             (phase = "aborted" /\ exitCode = 1))
    /\ []((phase = "running" /\ arg = <<>>) => numThreads \in 1..MaxThreads)
    /\ [][\A threads \in 0..MaxThreads :
            setThreadCount(threads) =>
                numThreads' = (IF threads = 0 THEN 1 ELSE threads)]_vars

=============================================================================
